---- MODULE Spec2Model ----
(***************************************************************************)
(* The orchestration engine of the Strategic Intelligence Assistant:       *)
(* ResearchGraph (backend/graph_engine.py) with the parts of               *)
(* StrategicBrain (backend/orchestrator.py) and StrategicMemory            *)
(* (backend/memory_manager.py) it drives.                                  *)
(*                                                                         *)
(* A message text is a sequence of tokens, so that Python's substring test *)
(* ("[FROM MEMORY]" in content) is token membership and the empty text is  *)
(* <<>> (falsy in Python, like None).                                      *)
(***************************************************************************)
EXTENDS Integers, Sequences, FiniteSets, TLC

VARIABLES
    conversations,    \* MongoDB agent_database.conversations: (thread, user) -> stored list
    reports,          \* Pinecone namespace reports_<user>: user -> query -> report
    runs,             \* run() calls started so far
    status,           \* "idle" | "running" | "returned" | "raised" | "failed" (HTTP 500)
    error,            \* the exception run() raised, "" while none
    node,             \* the graph node that executes next
    messages,         \* AgentState.messages (the channel operator.add reduces into)
    steps,            \* AgentState.steps
    supersteps,       \* graph nodes executed by app.astream in this run
    query,            \* run(query, ...)
    thread_id,        \* run(..., thread_id, ...)
    user_id,          \* run(..., user_id)
    initial_messages, \* initial_state["messages"]
    final_msg,        \* run()'s local final_msg
    returned,         \* what run() returned
    planner_calls,    \* completed executions of call_model in this run
    dispatched,       \* capability requests call_tool has handled in this run
    cache_query,      \* the text check_cache sent to the cache and to retrieval
    cached_report,    \* check_cache's local cached_report
    pdf_context,      \* check_cache's local pdf_context
    pruned,           \* get_response's local pruned, at the last call
    prompt_messages,  \* get_response's argument messages, at the last call
    varied,           \* responses of the reasoning policy other than DefaultPlan
    upserted,         \* the (query, report) this run passed to save_to_memory
    cache_match,      \* the match index.query returned to check_cache, <<>> if none
    distiller_calls,  \* calls of distill_scrape in this run
    faults,           \* the collaborator calls that failed in this run
    parked,           \* the locals of the other run() coroutine, while it is suspended
    active,           \* which of the two coroutines the event loop is executing
    png_files,        \* glob("*.png") of the working directory
    existing_files,   \* run()'s local existing_files
    written,          \* the chart files this run's execute_python calls wrote
    limited_calls,    \* model calls of this run that went through rate_limiter
    users,            \* MongoDB agent_database.users, in insertion order
    signups,          \* the create_user call of each signup request
    login,            \* the last verify_user call, what it returned, and the
                      \* signups that had returned before it
    chat,             \* the last POST /chat request and what chat_endpoint did
                      \* with it, and whether the service's keys are configured
    index,            \* the Pinecone index as save_to_memory writes it: vectors
                      \* with namespace, id and metadata
    last_saved        \* per (user_id, query), the last report given to save_to_memory

vars == <<conversations, reports, runs, status, error, node, messages, steps,
          supersteps, query, thread_id, user_id, initial_messages, final_msg,
          returned, planner_calls, dispatched, cache_query, cached_report,
          pdf_context, pruned, prompt_messages, varied, upserted, cache_match,
          distiller_calls, faults, parked, active, png_files, existing_files,
          written, limited_calls, users, signups, login, chat,
          index, last_saved>>

(* The similarity cache vector by vector *)
pinecone == <<index, last_saved>>

(* The variables of the account service *)
auth == <<users, signups, login>>

(* The variables of the second coroutine *)
other_run == <<parked, active>>

-----------------------------------------------------------------------------
(* Bounds of the model *)

MaxRuns == 2
MaxVaried == 1
MaxInitSteps == 3

Queries == {"q1", "q2"}
Threads == {"t1", "t2"}
Users == {"u1"}

(* Program constants *)

HardCap == 12
SoftThreshold == 8
RecursionLimit == 20
PruneWindow == 5
Threshold == 85

-----------------------------------------------------------------------------
(* Messages *)

None == <<>>
NoId == <<>>
FROM_MEMORY == "[FROM MEMORY]"
FROM_DOCUMENTS == "[FROM YOUR DOCUMENTS]"
URGENT == "URGENT: You have only 2 steps left."
Fallback == <<"I apologize, but I couldn't generate a response. Please try again.">>

HumanMessage(c) == [type |-> "human", content |-> c, tool_calls |-> <<>>, tool_call_id |-> NoId]
AIMessage(c, calls) == [type |-> "ai", content |-> c, tool_calls |-> calls, tool_call_id |-> NoId]
SystemMessage(c) == [type |-> "system", content |-> c, tool_calls |-> <<>>, tool_call_id |-> NoId]
ToolMessage(c, id) == [type |-> "tool", content |-> c, tool_calls |-> <<>>, tool_call_id |-> id]

Contains(content, token) == \E i \in 1..Len(content) : content[i] = token

Last(s) == s[Len(s)]

-----------------------------------------------------------------------------
(* Conversation store: run() converts between stored dicts and messages *)

RECURSIVE LoadMessages(_)
LoadMessages(history) ==
    IF history = <<>> THEN <<>>
    ELSE LET msg == Head(history)
             rest == LoadMessages(Tail(history))
         IN IF msg.role = "user" THEN <<HumanMessage(msg.content)>> \o rest
            ELSE IF msg.role = "assistant" THEN <<AIMessage(msg.content, <<>>)>> \o rest
            ELSE rest

RECURSIVE MessagesForStorage(_)
MessagesForStorage(all_messages) ==
    IF all_messages = <<>> THEN <<>>
    ELSE LET m == Head(all_messages)
             rest == MessagesForStorage(Tail(all_messages))
         IN IF m.type = "human" THEN <<[role |-> "user", content |-> m.content]>> \o rest
            ELSE IF m.type = "ai" THEN <<[role |-> "assistant", content |-> m.content]>> \o rest
            ELSE IF m.type = "system" THEN <<[role |-> "system", content |-> m.content]>> \o rest
            ELSE rest

-----------------------------------------------------------------------------
(* Similarity cache: StrategicMemory.query_memory.  A score is the cosine   *)
(* similarity times 100: 100 for the stored query itself, and for another   *)
(* text whatever the embedding gives, here one value on each side of the    *)
(* threshold.  index.query(top_k=1) returns the best match only.            *)

StoredQueries(u) == {k \in Queries : reports[u][k] # None}

(* index.query over the whole index: no namespace, no user_id filter *)
TopMatchesAnyUser(q, u) ==
    UNION {IF q \in StoredQueries(v)
           THEN {[score |-> 100, report |-> reports[v][q], user_id |-> v]}
           ELSE {[score |-> s, report |-> reports[v][k], user_id |-> v] :
                     k \in StoredQueries(v), s \in {40, 90}} : v \in DOMAIN reports}

TopMatches(q, u) ==
    IF q \in StoredQueries(u)
    THEN {[score |-> 100, report |-> reports[u][q], user_id |-> u]}
    ELSE {[score |-> s, report |-> reports[u][k], user_id |-> u] :
              k \in StoredQueries(u), s \in {40, 90}}

query_memory(matches) ==
    IF matches # <<>> /\ matches[1].score >= Threshold
    THEN matches[1].report
    ELSE None

QueryResults(q, u) ==
    IF TopMatches(q, u) = {} THEN {<<>>} ELSE {<<m>> : m \in TopMatches(q, u)}

(* What a call of a collaborator does: it answers, or it raises.  A value   *)
(* Raise stands for an exception leaving the function that returns it.      *)
Raise == <<"<raise>">>
NoFaults == {"ok"}
MayFail == {"ok", "raise"}

(* RAGEngine.retrieve_relevant_context: the joined chunks, or None when the *)
(* search finds nothing, finds blank text, or fails (try/except).           *)
Retrievals == {"found", "empty"}

(* retrieve_relevant_context without its try/except *)
retrieve_relevant_context_raising(outcome) ==
    IF outcome = "raise" THEN Raise
    ELSE IF outcome = "found" THEN <<"pdf chunk">>
    ELSE None

retrieve_relevant_context(outcome) ==
    IF outcome = "raise" THEN None
    ELSE IF outcome = "found" THEN <<"pdf chunk">>
    ELSE None

(* StrategicMemory.load_conversation without its try/except *)
load_conversation_raising(outcome, doc) ==
    IF outcome = "raise" THEN Raise ELSE doc

(* StrategicMemory.load_conversation: the stored list, [] when there is     *)
(* none or when the store fails                                             *)
load_conversation(outcome, doc) ==
    IF outcome = "raise" THEN <<>> ELSE doc

(* StrategicMemory.save_conversation: the stored list after the call; a     *)
(* failing store keeps what it had and the exception is swallowed           *)
save_conversation(outcome, doc, messages_for_storage) ==
    IF outcome = "raise" THEN doc ELSE messages_for_storage

(* chat_endpoint going on to run() whatever ResearchGraph(...) did *)
ConstructedAnyway(outcome) == TRUE

(* chat_endpoint: ResearchGraph(...) returned a graph *)
Constructed(outcome) == outcome # "raise"

-----------------------------------------------------------------------------
(* The graph: nodes and routing *)

(* check_cache adding the document context only when the cache had nothing *)
check_cache_either(report, context) ==
    IF report # None THEN <<AIMessage(<<FROM_MEMORY>> \o report, <<>>)>>
    ELSE IF context # None THEN <<SystemMessage(<<FROM_DOCUMENTS>> \o context)>>
    ELSE <<>>

check_cache(report, context) ==
    (IF report # None THEN <<AIMessage(<<FROM_MEMORY>> \o report, <<>>)>> ELSE <<>>)
    \o (IF context # None THEN <<SystemMessage(<<FROM_DOCUMENTS>> \o context)>> ELSE <<>>)

is_it_known(msgs) ==
    IF msgs = <<>> THEN "unknown"
    ELSE IF Last(msgs).type = "ai" /\ Contains(Last(msgs).content, FROM_MEMORY)
         THEN "known"
         ELSE "unknown"

(* should_continue with the cap compared by > *)
should_continue_late_cap(msgs, s) ==
    IF s > HardCap THEN "end"
    ELSE IF Last(msgs).tool_calls # <<>> THEN "continue" ELSE "end"

should_continue(msgs, s) ==
    IF s >= HardCap THEN "end"
    ELSE IF Last(msgs).tool_calls # <<>> THEN "continue" ELSE "end"

(* astream with config recursion_limit: the graph may execute that many     *)
(* nodes; when another node is due after them, GraphRecursionError.         *)
Advance(next_node, executed) ==
    IF next_node = "END"
    THEN [node |-> "END", status |-> "running", error |-> ""]
    ELSE IF executed >= RecursionLimit
         THEN [node |-> next_node, status |-> "raised", error |-> "GraphRecursionError"]
         ELSE [node |-> next_node, status |-> "running", error |-> ""]

(* run()'s loop keeping the text it has when the node's message is empty *)
StreamUpdateNonEmpty(key, node_messages, current) ==
    IF node_messages = <<>> THEN current
    ELSE IF /\ key \in {"planner", "memory_check"}
            /\ Last(node_messages).tool_calls = <<>>
            /\ Last(node_messages).content # <<>>
         THEN Last(node_messages).content
         ELSE current

(* run()'s loop over the streamed node outputs *)
StreamUpdate(key, node_messages, current) ==
    IF node_messages = <<>> THEN current
    ELSE IF key \in {"planner", "memory_check"} /\ Last(node_messages).tool_calls = <<>>
         THEN Last(node_messages).content
         ELSE current

-----------------------------------------------------------------------------
(* StrategicBrain.get_response: the pruned view, then the external model    *)

LastN(s, n) == SubSeq(s, Len(s) - n + 1, Len(s))

(* get_response keeping the last 3 messages, as its comment words it *)
PruneLast3(msgs) ==
    IF Len(msgs) > PruneWindow THEN <<msgs[1]>> \o LastN(msgs, 3) ELSE msgs

Prune(msgs) ==
    IF Len(msgs) > PruneWindow THEN <<msgs[1]>> \o LastN(msgs, 4) ELSE msgs

(* call_model warning from step 8 on, as its comment words it *)
WithWarningFrom8(msgs, current_steps) ==
    IF current_steps >= SoftThreshold
    THEN Append(msgs, SystemMessage(<<URGENT>>))
    ELSE msgs

WithWarning(msgs, current_steps) ==
    IF current_steps > SoftThreshold
    THEN Append(msgs, SystemMessage(<<URGENT>>))
    ELSE msgs

(* call_model returning the counter it read *)
NextStepsSame(current_steps) == current_steps

NextSteps(current_steps) == current_steps + 1

(* StrategicBrain.__init__: the two clients of the external model.  Only    *)
(* self.llm is given the module's rate_limiter.                             *)
llm == [rate_limiter |-> TRUE]
distiller == [rate_limiter |-> FALSE]

Limited(client, calls) == IF client.rate_limiter THEN calls ELSE 0

(* What the reasoning policy may answer: a final text, or capability        *)
(* requests.  xyz is a name no branch of call_tool routes.                  *)
RoutedTools == {"scrape_site", "read_pdf_document", "query_user_pdfs", "web_search", "execute_python"}
DefaultPlan == <<"web_search">>
Plans == {DefaultPlan,
          <<"xyz">>,
          <<"web_search", "xyz">>,
          <<"scrape_site", "query_user_pdfs">>}
Answers == {<<"answer">>, <<>>}

Responses == {[content |-> a, plan |-> <<>>] : a \in Answers}
             \cup {[content |-> <<>>, plan |-> p] : p \in Plans}

(* The provider gives every request of a run its own identifier *)
ToolCalls(plan, turn) == [i \in 1..Len(plan) |-> [name |-> plan[i], id |-> <<turn, i>>]]

-----------------------------------------------------------------------------
(* ResearchGraph.call_tool *)

Unbound == <<"<unbound local>">>
NoInfo == "No relevant information found in your uploaded documents."
DistillFailed == "Context distillation failed:"

(* What the outside world does during one execution of call_tool: whether   *)
(* the distiller's model answers, and what the retrieval finds.  The plans  *)
(* below hold at most one request of each kind, so one outcome per          *)
(* execution is one outcome per call.  chart is the set of files the        *)
(* sandbox saves for an execute_python request.                             *)
NoChart == {}
Calm == {[distiller |-> "ok", retrieval |-> "found", chart |-> NoChart]}
Rough == [distiller : MayFail, retrieval : Retrievals \cup {"raise"}, chart : {NoChart}]

LargeResultTools == {"scrape_site", "read_pdf_document"}

(* str() of what the tool itself returned *)
RawResult(tool_name) ==
    IF tool_name = "scrape_site" THEN <<"page">>
    ELSE IF tool_name = "read_pdf_document" THEN <<"pdf text">>
    ELSE IF tool_name = "web_search" THEN <<"search results">>
    ELSE <<"python output">>

(* StrategicBrain.distill_scrape re-raising what the distiller raised *)
distill_scrape_raising(raw_text, outcome) ==
    IF outcome = "raise" THEN Raise ELSE <<"distilled">> \o raw_text

(* StrategicBrain.distill_scrape: the distiller's text, or on any exception *)
(* the diagnostic string                                                    *)
distill_scrape(raw_text, outcome) ==
    IF outcome = "raise" THEN <<DistillFailed>> ELSE <<"distilled">> \o raw_text

Plain(r) == [result |-> r, distiller_calls |-> 0, faults |-> {}, files |-> {}]

Distilled(tool_name, env) ==
    [result |-> distill_scrape(RawResult(tool_name), env.distiller),
     distiller_calls |-> 1,
     faults |-> IF env.distiller = "raise" THEN {"distiller"} ELSE {},
     files |-> {}]

Retrieved(env) ==
    LET retrieved == retrieve_relevant_context(env.retrieval)
    IN [result |-> IF retrieved = Raise THEN Raise
                   ELSE IF retrieved # None THEN retrieved ELSE <<NoInfo>>,
        distiller_calls |-> 0,
        faults |-> IF env.retrieval = "raise" THEN {"retrieval_tool"} ELSE {},
        files |-> {}]

(* execute_python: LogicSandbox.run_code saves the figures of the code      *)
Executed(tool_name, env) == [Plain(RawResult(tool_name)) EXCEPT !.files = env.chart]

(* The if/elif chain distilling every result *)
DispatchDistillAll(tool_name, result, env) ==
    IF tool_name = "query_user_pdfs" THEN Retrieved(env)
    ELSE IF tool_name \in RoutedTools THEN Distilled(tool_name, env)
    ELSE Plain(result)

(* The if/elif chain: the value of the local result after it, with the      *)
(* distiller calls and collaborator failures of the branch taken.  No       *)
(* branch matches an unrouted name, which leaves result as it was.          *)
Dispatch(tool_name, result, env) ==
    IF tool_name = "scrape_site" THEN Distilled(tool_name, env)
    ELSE IF tool_name = "read_pdf_document" THEN Distilled(tool_name, env)
    ELSE IF tool_name = "query_user_pdfs" THEN Retrieved(env)
    ELSE IF tool_name = "web_search" THEN Plain(RawResult(tool_name))
    ELSE IF tool_name = "execute_python" THEN Executed(tool_name, env)
    ELSE Plain(result)

(* call_tool tagging the observation with the capability name *)
ObservationByName(result, tool_call) == ToolMessage(result, <<tool_call.name>>)

Observation(result, tool_call) == ToolMessage(result, tool_call.id)

NoOutputs == [tool_outputs |-> <<>>, distiller_calls |-> 0, faults |-> {}, files |-> {}]

RECURSIVE call_tool(_, _, _, _)
call_tool(tool_calls, result, env, acc) ==
    IF tool_calls = <<>>
    THEN [raised |-> FALSE, error |-> ""] @@ acc
    ELSE LET tool_call == Head(tool_calls)
             d == Dispatch(tool_call.name, result, env)
             seen == [tool_outputs |-> acc.tool_outputs,
                      distiller_calls |-> acc.distiller_calls + d.distiller_calls,
                      faults |-> acc.faults \cup d.faults,
                      files |-> acc.files \cup d.files]
         IN IF d.result = Unbound
            THEN [raised |-> TRUE, error |-> "UnboundLocalError"] @@ seen
            ELSE IF d.result = Raise
            THEN [raised |-> TRUE, error |-> "CollaboratorError"] @@ seen
            ELSE call_tool(Tail(tool_calls), d.result, env,
                           [seen EXCEPT !.tool_outputs =
                                Append(@, Observation(d.result, tool_call))])

(* An outcome is drawn only for a collaborator the requests reach *)
Reaches(tool_calls, env) ==
    /\ (\A i \in 1..Len(tool_calls) : tool_calls[i].name \notin LargeResultTools)
           => env.distiller = "ok"
    /\ (\A i \in 1..Len(tool_calls) : tool_calls[i].name # "query_user_pdfs")
           => env.retrieval = "found"
    /\ (\A i \in 1..Len(tool_calls) : tool_calls[i].name # "execute_python")
           => env.chart = NoChart

-----------------------------------------------------------------------------
(* State after construction: empty stores, no run yet *)

NoResult == [answer |-> <<>>, generated_files |-> {}]
NoUpsert == <<>>

RunLocals ==
    /\ error = ""
    /\ final_msg = <<>>
    /\ returned = NoResult
    /\ planner_calls = 0
    /\ dispatched = 0
    /\ cache_query = <<>>
    /\ cached_report = None
    /\ pdf_context = None
    /\ pruned = <<>>
    /\ prompt_messages = <<>>
    /\ varied = 0
    /\ upserted = NoUpsert
    /\ cache_match = <<>>
    /\ distiller_calls = 0
    /\ faults = {}
    /\ existing_files = {}
    /\ written = {}
    /\ limited_calls = 0

(* The locals of a run() call, as one value *)
Locals ==
    [status |-> status, error |-> error, node |-> node, messages |-> messages,
     steps |-> steps, supersteps |-> supersteps, query |-> query,
     thread_id |-> thread_id, user_id |-> user_id,
     initial_messages |-> initial_messages, final_msg |-> final_msg,
     returned |-> returned, planner_calls |-> planner_calls,
     dispatched |-> dispatched, cache_query |-> cache_query,
     cached_report |-> cached_report, pdf_context |-> pdf_context,
     pruned |-> pruned, prompt_messages |-> prompt_messages, varied |-> varied,
     upserted |-> upserted, cache_match |-> cache_match,
     distiller_calls |-> distiller_calls, faults |-> faults,
     existing_files |-> existing_files, written |-> written,
     limited_calls |-> limited_calls]

(* A coroutine slot in which no run() has been called yet *)
NoRun ==
    [status |-> "idle", error |-> "", node |-> "END", messages |-> <<>>,
     steps |-> 0, supersteps |-> 0, query |-> "", thread_id |-> "", user_id |-> "",
     initial_messages |-> <<>>, final_msg |-> <<>>, returned |-> NoResult,
     planner_calls |-> 0, dispatched |-> 0, cache_query |-> <<>>,
     cached_report |-> None, pdf_context |-> None, pruned |-> <<>>,
     prompt_messages |-> <<>>, varied |-> 0, upserted |-> NoUpsert,
     cache_match |-> <<>>, distiller_calls |-> 0, faults |-> {},
     existing_files |-> {}, written |-> {}, limited_calls |-> 0]

OneCoroutine ==
    /\ parked = NoRun
    /\ active = 1

(* No chart has been written yet *)
NoCharts == png_files = {}

(* The signup requests the service will receive *)
Requests == {1, 2}

(* The empty password *)
NoPassword == [prefix |-> "", length |-> 0]

(* No login request received yet *)
NoLogin == [username |-> <<>>, password |-> NoPassword, result |-> <<>>, after |-> {}]

(* A JWT as decode_token sees it: whether the signature verifies under
   SECRET_KEY, whether exp has passed, and the user_id claim *)
Tokens == [signature : {"ok", "bad"}, expired : BOOLEAN, user_id : {"u1"}]

(* No chat request received yet *)
NoToken == [signature |-> "", expired |-> FALSE, user_id |-> ""]
NoChat ==
    [query |-> <<>>, thread_id |-> <<>>, token |-> NoToken, outcome |-> "", configured |-> TRUE]

(* A service whose GOOGLE_API_KEY, PINECONE_API_KEY and MONGODB_URI are set *)
Configured == chat = NoChat

(* The users and queries save_to_memory is called with: texts that hold the
   separator "_" of f"{user_id}_{query}" *)
CacheUsers == {<<"u">>, <<"u", "_", "1">>}
CacheQueries == {<<"q">>, <<"1", "_", "q">>}

(* An empty index *)
NoVectors == index = {} /\ last_saved = [k \in CacheUsers \X CacheQueries |-> <<>>]

(* No account yet, no signup or login request received *)
NoAccounts ==
    /\ users = <<>>
    /\ signups = [r \in Requests |-> [pc |-> "idle", username |-> <<>>,
                                       password |-> NoPassword, result |-> <<>>]]
    /\ login = NoLogin

Init ==
    /\ conversations = [k \in Threads \X Users |-> <<>>]
    /\ reports = [u \in Users |-> [k \in Queries |-> None]]
    /\ runs = 0
    /\ status = "idle"
    /\ node = "END"
    /\ messages = <<>>
    /\ steps = 0
    /\ supersteps = 0
    /\ query = ""
    /\ thread_id = ""
    /\ user_id = ""
    /\ initial_messages = <<>>
    /\ RunLocals
    /\ OneCoroutine
    /\ NoCharts
    /\ NoAccounts
    /\ Configured
    /\ NoVectors

-----------------------------------------------------------------------------
(* chat_endpoint constructing the ResearchGraph, and run() up to the first  *)
(* node of the graph                                                        *)

RunBegin(q, t, u, constructs, loads) ==
    /\ status # "running"
    /\ runs < MaxRuns
    /\ \E construct \in constructs, load \in loads :
         LET history == load_conversation(load, conversations[<<t, u>>])
             msgs == LoadMessages(history) \o <<HumanMessage(<<q>>)>>
             built == Constructed(construct)
             loaded == built /\ history # Raise
         IN /\ messages' = IF loaded THEN msgs ELSE <<>>
            /\ initial_messages' = IF loaded THEN msgs ELSE <<>>
            /\ status' = IF ~built THEN "failed" ELSE IF ~loaded THEN "raised" ELSE "running"
            /\ error' = IF ~built THEN "InitError" ELSE IF ~loaded THEN "LoadError" ELSE ""
            /\ node' = IF loaded THEN "memory_check" ELSE "END"
            /\ runs' = IF built THEN runs + 1 ELSE runs
            /\ faults' = (IF construct = "raise" THEN {"construct"} ELSE {})
                         \cup (IF built /\ load = "raise" THEN {"load"} ELSE {})
            /\ query' = IF built THEN q ELSE ""
            /\ thread_id' = IF built THEN t ELSE ""
            /\ user_id' = IF built THEN u ELSE ""
    /\ steps' = 0
    /\ supersteps' = 0
    /\ final_msg' = <<>>
    /\ returned' = NoResult
    /\ planner_calls' = 0
    /\ dispatched' = 0
    /\ cache_query' = <<>>
    /\ cached_report' = None
    /\ pdf_context' = None
    /\ pruned' = <<>>
    /\ prompt_messages' = <<>>
    /\ varied' = 0
    /\ upserted' = NoUpsert
    /\ cache_match' = <<>>
    /\ distiller_calls' = 0
    /\ existing_files' = png_files
    /\ written' = {}
    /\ limited_calls' = 0
    /\ UNCHANGED <<conversations, reports, png_files>>
    /\ UNCHANGED other_run
    /\ UNCHANGED auth

(* A run started by a request that passed chat_endpoint's checks *)
RunStartEnv(q, t, u, constructs, loads) ==
    /\ RunBegin(q, t, u, constructs, loads)
    /\ UNCHANGED chat
    /\ UNCHANGED pinecone

RunStart(q, t, u) == RunStartEnv(q, t, u, NoFaults, NoFaults)

(* Node memory_check, its routing by is_it_known, and run()'s handling of   *)
(* the streamed output.  query_memory is called bare: what it raises leaves *)
(* check_cache, the graph and run().                                        *)
GateEnv(cache_outcomes, retrievals) ==
    /\ status = "running"
    /\ node = "memory_check"
    /\ \E cache \in cache_outcomes, matches \in QueryResults(messages[1].content, user_id),
          retrieval \in retrievals :
         LET q == messages[1].content
             report == query_memory(matches)
             context == retrieve_relevant_context(retrieval)
             context_messages == check_cache(report, context)
             msgs == messages \o context_messages
             next_node == IF is_it_known(msgs) = "known" THEN "END" ELSE "planner"
             adv == Advance(next_node, supersteps + 1)
         IN /\ cache_query' = q
            /\ IF cache = "raise"
               THEN /\ status' = "raised"
                    /\ error' = "CacheError"
                    /\ faults' = faults \cup {"cache"}
                    /\ UNCHANGED <<cached_report, cache_match, pdf_context, messages,
                                   final_msg, supersteps, node>>
               ELSE IF context = Raise
               THEN /\ status' = "raised"
                    /\ error' = "RetrievalError"
                    /\ faults' = faults \cup {"retrieval_gate"}
                    /\ cached_report' = report
                    /\ cache_match' = matches
                    /\ UNCHANGED <<pdf_context, messages, final_msg, supersteps, node>>
               ELSE /\ cached_report' = report
                    /\ cache_match' = matches
                    /\ pdf_context' = context
                    /\ faults' = IF retrieval = "raise"
                                 THEN faults \cup {"retrieval_gate"} ELSE faults
                    /\ messages' = msgs
                    /\ final_msg' = StreamUpdate("memory_check", context_messages, final_msg)
                    /\ supersteps' = supersteps + 1
                    /\ node' = adv.node
                    /\ status' = adv.status
                    /\ error' = adv.error
    /\ UNCHANGED <<conversations, reports, runs, steps, query, thread_id, user_id,
                   initial_messages, returned, planner_calls, dispatched, pruned,
                   prompt_messages, varied, upserted, distiller_calls>>
    /\ UNCHANGED other_run
    /\ UNCHANGED <<png_files, existing_files, written>>
    /\ UNCHANGED limited_calls
    /\ UNCHANGED auth
    /\ UNCHANGED chat
    /\ UNCHANGED pinecone

Gate == GateEnv(NoFaults, Retrievals)

(* Node planner (call_model), its routing by should_continue, and run()'s   *)
(* handling of the streamed output.  The warning is appended to the list    *)
(* the channel holds, so it stays in the history.  get_response is called   *)
(* bare: what the model raises after its retries leaves call_model.         *)
ReasonEnv(model_outcomes, responses) ==
    /\ status = "running"
    /\ node = "planner"
    /\ \E model \in model_outcomes, r \in responses :
         /\ (r.plan # <<>> /\ r.plan # DefaultPlan) => varied < MaxVaried
         /\ LET current_steps == steps
                seen == WithWarning(messages, current_steps)
                response == AIMessage(r.content, ToolCalls(r.plan, planner_calls + 1))
                msgs == Append(seen, response)
                next_node == IF should_continue(msgs, NextSteps(current_steps)) = "continue"
                             THEN "executor" ELSE "END"
                adv == Advance(next_node, supersteps + 1)
            IN /\ prompt_messages' = seen
               /\ limited_calls' = limited_calls + Limited(llm, 1)
               /\ pruned' = Prune(seen)
               /\ IF model = "raise"
                  THEN /\ messages' = seen
                       /\ status' = "raised"
                       /\ error' = "ModelError"
                       /\ faults' = faults \cup {"model"}
                       /\ UNCHANGED <<steps, planner_calls, varied, final_msg,
                                      supersteps, node>>
                  ELSE /\ messages' = msgs
                       /\ steps' = NextSteps(current_steps)
                       /\ planner_calls' = planner_calls + 1
                       /\ varied' = IF r.plan # <<>> /\ r.plan # DefaultPlan
                                    THEN varied + 1 ELSE varied
                       /\ final_msg' = StreamUpdate("planner", <<response>>, final_msg)
                       /\ supersteps' = supersteps + 1
                       /\ node' = adv.node
                       /\ status' = adv.status
                       /\ error' = adv.error
                       /\ UNCHANGED faults
    /\ UNCHANGED <<conversations, reports, runs, query, thread_id, user_id,
                   initial_messages, returned, dispatched, cache_query,
                   cached_report, pdf_context, upserted, cache_match,
                   distiller_calls>>
    /\ UNCHANGED other_run
    /\ UNCHANGED <<png_files, existing_files, written>>
    /\ UNCHANGED auth
    /\ UNCHANGED chat
    /\ UNCHANGED pinecone

Reason == ReasonEnv(NoFaults, Responses)

(* Node executor (call_tool), the edge back to planner *)
ActEnv(envs) ==
    /\ status = "running"
    /\ node = "executor"
    /\ \E env \in envs :
         /\ Reaches(Last(messages).tool_calls, env)
         /\ LET last_message == Last(messages)
                out == call_tool(last_message.tool_calls, Unbound, env, NoOutputs)
                adv == Advance("planner", supersteps + 1)
            IN /\ dispatched' = dispatched + Len(out.tool_outputs)
               /\ distiller_calls' = distiller_calls + out.distiller_calls
               /\ limited_calls' = limited_calls + Limited(distiller, out.distiller_calls)
               /\ faults' = faults \cup out.faults
               /\ png_files' = png_files \cup out.files
               /\ written' = written \cup out.files
               /\ IF out.raised
                  THEN /\ status' = "raised"
                       /\ error' = out.error
                       /\ UNCHANGED <<messages, node, supersteps, final_msg>>
                  ELSE /\ messages' = messages \o out.tool_outputs
                       /\ final_msg' = StreamUpdate("executor", out.tool_outputs, final_msg)
                       /\ supersteps' = supersteps + 1
                       /\ node' = adv.node
                       /\ status' = adv.status
                       /\ error' = adv.error
    /\ UNCHANGED <<conversations, reports, runs, steps, query, thread_id, user_id,
                   initial_messages, returned, planner_calls, cache_query,
                   cached_report, pdf_context, pruned, prompt_messages, varied,
                   upserted, cache_match>>
    /\ UNCHANGED other_run
    /\ UNCHANGED existing_files
    /\ UNCHANGED auth
    /\ UNCHANGED chat
    /\ UNCHANGED pinecone

Act == ActEnv(Calm)

(* run()'s return value without the fallback text *)
RunResultBare(final, generated_files) ==
    [answer |-> final, generated_files |-> generated_files]

(* run()'s return value: the final text, or the fallback when there is none *)
RunResult(final, generated_files) ==
    [answer |-> IF final # <<>> THEN final ELSE Fallback,
     generated_files |-> generated_files]

(* run(), after the graph has ended, awaiting a store that never answers *)
RunFinishHangs ==
    /\ status = "running"
    /\ node = "END"
    /\ UNCHANGED vars

(* run() archiving every non-empty final text, the cached ones too *)
FreshAlways(final) == final # <<>>

(* run()'s test before save_to_memory: a final text that is not a cached one *)
Fresh(final) == final # <<>> /\ ~Contains(final, FROM_MEMORY)

(* run(), after the graph has ended: archive and return.  save_to_memory is *)
(* called bare: what the embedding or the upsert raises leaves run() before *)
(* the conversation is saved and before the return.                         *)
RunFinishEnv(upserts, saves) ==
    /\ status = "running"
    /\ node = "END"
    /\ \E upsert \in upserts, save \in saves :
         LET fresh == Fresh(final_msg)
             all_messages == Append(initial_messages, AIMessage(final_msg, <<>>))
             doc == conversations[<<thread_id, user_id>>]
         IN /\ ~fresh => upsert = "ok"
            /\ (final_msg = <<>>) => save = "ok"
            /\ IF upsert = "raise"
               THEN /\ save = "ok"
                    /\ status' = "raised"
                    /\ error' = "UpsertError"
                    /\ faults' = faults \cup {"upsert"}
                    /\ UNCHANGED <<reports, upserted, conversations, returned>>
               ELSE /\ reports' = IF fresh
                                  THEN [reports EXCEPT ![user_id][query] = final_msg]
                                  ELSE reports
                    /\ upserted' = IF fresh THEN <<query, final_msg>> ELSE upserted
                    /\ conversations' =
                           IF final_msg # <<>>
                           THEN [conversations EXCEPT ![<<thread_id, user_id>>] =
                                    save_conversation(save, doc,
                                                      MessagesForStorage(all_messages))]
                           ELSE conversations
                    /\ faults' = IF save = "raise" THEN faults \cup {"save"} ELSE faults
                    /\ returned' = RunResult(final_msg, png_files \ existing_files)
                    /\ status' = "returned"
                    /\ error' = error
    /\ UNCHANGED <<runs, node, messages, steps, supersteps, query, thread_id,
                   user_id, initial_messages, final_msg, planner_calls, dispatched,
                   cache_query, cached_report, pdf_context, pruned, prompt_messages,
                   varied, cache_match, distiller_calls>>
    /\ UNCHANGED other_run
    /\ UNCHANGED <<png_files, existing_files, written>>
    /\ UNCHANGED limited_calls
    /\ UNCHANGED auth
    /\ UNCHANGED chat
    /\ UNCHANGED pinecone

RunFinish == RunFinishEnv(NoFaults, NoFaults)

Next ==
    \/ \E q \in Queries, t \in Threads, u \in Users : RunStart(q, t, u)
    \/ Gate
    \/ Reason
    \/ Act
    \/ RunFinish

Spec == Init /\ [][Next]_vars

-----------------------------------------------------------------------------
(* The compiled graph on its own: self.app applied to any AgentState.  The  *)
(* routing functions decide on the state they are given, so the step        *)
(* counter of the input ranges over 0..MaxInitSteps here, which lets a run  *)
(* of at most RecursionLimit nodes reach the hard cap.                      *)

InitGraph ==
    /\ conversations = [k \in Threads \X Users |-> <<>>]
    /\ reports = [u \in Users |-> [k \in Queries |-> None]]
    /\ runs = 1
    /\ status = "running"
    /\ node = "memory_check"
    /\ query \in Queries
    /\ thread_id \in Threads
    /\ user_id \in Users
    /\ messages = <<HumanMessage(<<query>>)>>
    /\ initial_messages = messages
    /\ steps \in 0..MaxInitSteps
    /\ supersteps = 0
    /\ RunLocals
    /\ OneCoroutine
    /\ NoCharts
    /\ NoAccounts
    /\ Configured
    /\ NoVectors

NextGraph ==
    \/ Gate
    \/ Reason
    \/ Act

SpecGraph == InitGraph /\ [][NextGraph]_vars

-----------------------------------------------------------------------------
(* One run with collaborators that may fail: the similarity cache, the      *)
(* retrieval, the reasoning model (after its retries) and the distiller's   *)
(* model.  The run is the first one on empty stores.                        *)

ResponsesRough ==
    Responses \cup {[content |-> <<>>, plan |-> <<"read_pdf_document", "execute_python">>]}

InitRough ==
    /\ conversations = [k \in Threads \X Users |-> <<>>]
    /\ reports = [u \in Users |-> [k \in Queries |-> None]]
    /\ runs = 1
    /\ status = "running"
    /\ node = "memory_check"
    /\ query \in Queries
    /\ thread_id \in Threads
    /\ user_id \in Users
    /\ messages = <<HumanMessage(<<query>>)>>
    /\ initial_messages = messages
    /\ steps = 0
    /\ supersteps = 0
    /\ RunLocals
    /\ OneCoroutine
    /\ NoCharts
    /\ NoAccounts
    /\ Configured
    /\ NoVectors

GateRough == GateEnv(MayFail, Retrievals \cup {"raise"})
ReasonRough == ReasonEnv(MayFail, ResponsesRough)
ActRough == ActEnv(Rough)

NextRough ==
    \/ GateRough
    \/ ReasonRough
    \/ ActRough
    \/ RunFinish

SpecRough == InitRough /\ [][NextRough]_vars

-----------------------------------------------------------------------------
(* Runs of two users on the same stores.  The policy answers at once or     *)
(* asks for one search first.                                               *)

AllUsers == {"u1", "u2"}
ResponsesPlain == {r \in Responses : r.plan \in {<<>>, DefaultPlan}}

InitUsers ==
    /\ conversations = [k \in Threads \X AllUsers |-> <<>>]
    /\ reports = [u \in AllUsers |-> [k \in Queries |-> None]]
    /\ runs = 0
    /\ status = "idle"
    /\ node = "END"
    /\ messages = <<>>
    /\ steps = 0
    /\ supersteps = 0
    /\ query = ""
    /\ thread_id = ""
    /\ user_id = ""
    /\ initial_messages = <<>>
    /\ RunLocals
    /\ OneCoroutine
    /\ NoCharts
    /\ NoAccounts
    /\ Configured
    /\ NoVectors

ReasonPlain == ReasonEnv(NoFaults, ResponsesPlain)

NextUsers ==
    \/ \E q \in Queries, t \in Threads, u \in AllUsers : RunStart(q, t, u)
    \/ Gate
    \/ ReasonPlain
    \/ Act
    \/ RunFinish

SpecUsers == InitUsers /\ [][NextUsers]_vars

-----------------------------------------------------------------------------
(* Two chat requests served concurrently.  chat_endpoint builds a           *)
(* ResearchGraph per request and awaits its run(); the event loop executes  *)
(* one coroutine at a time and may change to the other wherever one awaits. *)
(* The stores are shared, the locals and the AgentState of a run are its    *)
(* own.  The policy answers at once or after one turn of requests, and the  *)
(* requests are for the same thread.                                        *)

ResponsesBrief == {r \in Responses : r.plan \in {<<>>, <<"web_search", "xyz">>}}

(* The state a coroutine resumes with, were AgentState one shared object *)
ResumeShared(ctx, now) == [ctx EXCEPT !.messages = now.messages, !.steps = now.steps]

(* The state a suspended coroutine resumes with: what it was suspended with *)
Resume(ctx, now) == ctx

Switch ==
    /\ status # "idle" \/ parked.status # "idle"
    /\ LET r == Resume(parked, Locals)
       IN /\ status' = r.status
          /\ error' = r.error
          /\ node' = r.node
          /\ messages' = r.messages
          /\ steps' = r.steps
          /\ supersteps' = r.supersteps
          /\ query' = r.query
          /\ thread_id' = r.thread_id
          /\ user_id' = r.user_id
          /\ initial_messages' = r.initial_messages
          /\ final_msg' = r.final_msg
          /\ returned' = r.returned
          /\ planner_calls' = r.planner_calls
          /\ dispatched' = r.dispatched
          /\ cache_query' = r.cache_query
          /\ cached_report' = r.cached_report
          /\ pdf_context' = r.pdf_context
          /\ pruned' = r.pruned
          /\ prompt_messages' = r.prompt_messages
          /\ varied' = r.varied
          /\ upserted' = r.upserted
          /\ cache_match' = r.cache_match
          /\ distiller_calls' = r.distiller_calls
          /\ faults' = r.faults
          /\ existing_files' = r.existing_files
          /\ written' = r.written
          /\ limited_calls' = r.limited_calls
    /\ parked' = Locals
    /\ active' = 3 - active
    /\ UNCHANGED <<conversations, reports, runs, png_files>>
    /\ UNCHANGED auth
    /\ UNCHANGED chat
    /\ UNCHANGED pinecone

ReasonBrief == ReasonEnv(NoFaults, ResponsesBrief)

NextConcurrent ==
    \/ \E q \in Queries, u \in Users : RunStart(q, "t1", u)
    \/ Gate
    \/ ReasonBrief
    \/ Act
    \/ RunFinish
    \/ Switch

SpecConcurrent == Init /\ [][NextConcurrent]_vars

-----------------------------------------------------------------------------
(* Runs that plot.  The policy answers, or asks for execute_python; the     *)
(* sandbox saves no figure, or one under the tool's default name            *)
(* (output_filename = "output_chart.png"), or one under a name the code     *)
(* gives to plt.savefig.  Nothing removes a chart from the directory.       *)

ResponsesCharts == {r \in Responses : r.plan = <<>>}
                   \cup {[content |-> <<>>, plan |-> <<"execute_python">>]}

Charting ==
    [distiller : {"ok"}, retrieval : {"found"},
     chart : {NoChart, {"output_chart.png"}, {"revenue.png"}}]

ReasonCharts == ReasonEnv(NoFaults, ResponsesCharts)
ActCharts == ActEnv(Charting)

NextCharts ==
    \/ \E q \in Queries, u \in Users : RunStart(q, "t1", u)
    \/ Gate
    \/ ReasonCharts
    \/ ActCharts
    \/ RunFinish

SpecCharts == Init /\ [][NextCharts]_vars

-----------------------------------------------------------------------------
(* Two runs that plot in one working directory, interleaved at their awaits *)

Plotting ==
    [distiller : {"ok"}, retrieval : {"found"}, chart : {NoChart, {"revenue.png"}}]

GateOverlap == GateEnv(NoFaults, {"empty"})
ActOverlap == ActEnv(Plotting)

NextOverlap ==
    \/ \E u \in Users : RunStart("q1", "t1", u)
    \/ GateOverlap
    \/ ReasonCharts
    \/ ActOverlap
    \/ RunFinish
    \/ Switch

SpecOverlap == Init /\ [][NextOverlap]_vars

-----------------------------------------------------------------------------
(* One run whose collaborators always return, scheduled fairly: astream     *)
(* executes the node that is due, and run() goes on once the graph ended.   *)

NextFair ==
    \/ Gate
    \/ Reason
    \/ Act
    \/ RunFinish

SpecFair == InitRough /\ [][NextFair]_vars /\ WF_vars(NextFair)

-----------------------------------------------------------------------------
(* Chat requests while the conversation store, or the construction of the   *)
(* ResearchGraph, may fail.                                                 *)

FinishStoreless == RunFinishEnv(NoFaults, MayFail)

NextStoreless ==
    \/ \E q \in Queries, t \in Threads, u \in Users : RunStartEnv(q, t, u, MayFail, MayFail)
    \/ Gate
    \/ ReasonPlain
    \/ Act
    \/ FinishStoreless

SpecStoreless == Init /\ [][NextStoreless]_vars

-----------------------------------------------------------------------------
(* Runs while the similarity cache may refuse the upsert at run end *)

FinishCacheless == RunFinishEnv(MayFail, NoFaults)

NextCacheless ==
    \/ \E q \in Queries, t \in Threads, u \in Users : RunStart(q, t, u)
    \/ Gate
    \/ ReasonPlain
    \/ Act
    \/ FinishCacheless

SpecCacheless == Init /\ [][NextCacheless]_vars

-----------------------------------------------------------------------------
(* Runs whose policy requests what it was offered: bind_tools(self.tools)   *)
(* declares the catalog to the model, one request per response here         *)

tools == {"web_search", "scrape_site", "execute_python", "read_pdf_document"}

ResponsesCatalog ==
    {r \in Responses : r.plan = <<>>}
    \cup {[content |-> <<>>, plan |-> <<name>>] : name \in tools}

ReasonCatalog == ReasonEnv(NoFaults, ResponsesCatalog)

NextCatalog ==
    \/ \E u \in Users : RunStart("q1", "t1", u)
    \/ GateOverlap
    \/ ReasonCatalog
    \/ Act
    \/ RunFinish

SpecCatalog == Init /\ [][NextCatalog]_vars

-----------------------------------------------------------------------------
(* The account service: AuthService.create_user and AuthService.verify_user *)

(* The variables of the research engine, which the account service never touches *)
engine == <<conversations, reports, runs, status, error, node, messages, steps, supersteps,
            query, thread_id, user_id, initial_messages, final_msg, returned, planner_calls,
            dispatched, cache_query, cached_report, pdf_context, pruned, prompt_messages,
            varied, upserted, cache_match, distiller_calls, faults, parked, active,
            png_files, existing_files, written, limited_calls, chat, index, last_saved>>

(* len(password) < 6 is rejected *)
MinPassword == 6

(* bcrypt reads at most 72 bytes of a password *)
MaxPasswordBytes == 72

(* A username is a sequence of characters; " " stands for whitespace *)
Usernames == {<<"bob">>, <<" ", "bob">>, <<"amy">>, <<" ">>}

(* A password is named by the content of its first 72 bytes and its length
   in bytes: two passwords with one prefix and lengths 72 and 73 agree on
   their first 72 bytes *)
Passwords == {[prefix |-> "a", length |-> 72], [prefix |-> "a", length |-> 73],
              [prefix |-> "b", length |-> 6], [prefix |-> "b", length |-> 5]}

(* bcrypt.checkpw on more than 72 bytes: releases before 5.0 truncate
   silently, later ones raise ValueError; the repository pins no release *)
Builds == {"truncates", "raises"}

RECURSIVE lstrip(_)
lstrip(s) == IF s # <<>> /\ Head(s) = " " THEN lstrip(Tail(s)) ELSE s

RECURSIVE rstrip(_)
rstrip(s) ==
    IF s # <<>> /\ s[Len(s)] = " " THEN rstrip(SubSeq(s, 1, Len(s) - 1)) ELSE s

(* str.strip() *)
strip(s) == rstrip(lstrip(s))

(* The bytes bcrypt hashes *)
Bytes72(password) ==
    [prefix |-> password.prefix,
     length |-> IF password.length > MaxPasswordBytes THEN MaxPasswordBytes
                ELSE password.length]

(* bcrypt.hashpw(password_bytes, salt): the salted digest verifies exactly
   the byte string it was made from *)
hashpw(password) == [digest_of |-> Bytes72(password)]

(* bcrypt.checkpw(password_bytes, stored_hash) *)
checkpw(password, stored_hash, build) ==
    IF password.length > MaxPasswordBytes /\ build = "raises" THEN "ValueError"
    ELSE IF Bytes72(password) = stored_hash.digest_of THEN "True"
    ELSE "False"

(* db.users.find_one({"username": name}): the first matching document, or None *)
find_one(name) ==
    LET found == {i \in 1..Len(users) : users[i].username = name}
    IN  IF found = {} THEN None
        ELSE users[CHOOSE i \in found : \A j \in found : i <= j]

(* The validation of create_user before it reaches the database; None when
   the inputs pass *)
Invalid(username, password) ==
    IF username = <<>> \/ strip(username) = <<>> THEN <<"Username cannot be empty">>
    ELSE IF password.length = 0 THEN <<"Password cannot be empty">>
    ELSE IF password.length < MinPassword
         THEN <<"Password must be at least 6 characters long">>
    ELSE IF password.length > MaxPasswordBytes
         THEN <<"Password is too long (maximum 72 bytes)">>
    ELSE None

AlreadyExists == <<"Username already exists">>

(* create_user up to the return of `await db.users.find_one`: the request is
   rejected (HTTP 400) or goes on to hash and insert *)
SignupCheck(r, username, password) ==
    /\ signups[r].pc = "idle"
    /\ LET rejected == IF Invalid(username, password) # None
                       THEN Invalid(username, password)
                       ELSE IF find_one(strip(username)) # None THEN AlreadyExists
                       ELSE None
       IN  signups' = [signups EXCEPT ![r] =
               [pc |-> IF rejected # None THEN "rejected" ELSE "checked",
                username |-> username, password |-> password, result |-> rejected]]
    /\ UNCHANGED <<users, login>>
    /\ UNCHANGED engine

(* create_user from bcrypt.hashpw to the return: `await db.users.insert_one`
   and the new document's id *)
SignupInsert(r) ==
    /\ signups[r].pc = "checked"
    /\ LET inserted_id == <<ToString(Len(users) + 1)>>
       IN  /\ users' = Append(users, [id |-> inserted_id,
                                      username |-> strip(signups[r].username),
                                      password |-> hashpw(signups[r].password)])
           /\ signups' = [signups EXCEPT ![r].pc = "done", ![r].result = inserted_id]
    /\ UNCHANGED login
    /\ UNCHANGED engine

(* verify_user: the user id, or None *)
verify_user(username, password, build) ==
    IF username = <<>> \/ password.length = 0 THEN None
    ELSE LET user == find_one(strip(username))
         IN  IF user = None THEN None
             ELSE IF checkpw(password, user.password, build) = "True" THEN user.id
             ELSE None

(* POST /login *)
Login(username, password, build) ==
    /\ login' = [username |-> username, password |-> password,
                 result |-> verify_user(username, password, build),
                 after |-> {r \in Requests : signups[r].pc = "done"}]
    /\ UNCHANGED <<users, signups>>
    /\ UNCHANGED engine

NextAuth ==
    \/ \E r \in Requests, u \in Usernames, p \in Passwords : SignupCheck(r, u, p)
    \/ \E r \in Requests : SignupInsert(r)
    \/ \E u \in Usernames, p \in Passwords, b \in Builds : Login(u, p, b)

SpecAuth == Init /\ [][NextAuth]_vars

-----------------------------------------------------------------------------
(* Runs whose policy explains itself while it requests a capability: a      *)
(* response with tool calls carries text of its own                         *)

ResponsesThinking ==
    {r \in Responses : r.plan = <<>>}
    \cup {[content |-> <<"let me search">>, plan |-> DefaultPlan]}

ReasonThinking == ReasonEnv(NoFaults, ResponsesThinking)

NextAnswers ==
    \/ \E q \in Queries, u \in Users : RunStart(q, "t1", u)
    \/ Gate
    \/ ReasonThinking
    \/ Act
    \/ RunFinish

SpecAnswers == Init /\ [][NextAnswers]_vars

-----------------------------------------------------------------------------
(* chat_endpoint: the checks before a run, for requests that come one after *)
(* the other                                                                *)

(* request.query and request.thread_id as sent: text, blank, or empty *)
RawQueries == {<<" ", "q1", " ">>, <<" ">>, <<>>}
RawThreads == {<<"t1">>, <<" ">>}

(* AuthService.decode_token: the payload, or the ValueError it raises *)
decode_token(token) ==
    IF token.signature # "ok" THEN [ok |-> FALSE, error |-> "Invalid token", user_id |-> ""]
    ELSE IF token.expired
         THEN [ok |-> FALSE, error |-> "Token has expired", user_id |-> ""]
    ELSE [ok |-> TRUE, error |-> "", user_id |-> token.user_id]

(* `not text or not text.strip()` *)
Blank(text) == text = <<>> \/ strip(text) = <<>>

(* The HTTPException chat_endpoint raises before it constructs anything,
   or "run" when the request passes every check *)
Checked(q, t, token, configured) ==
    IF Blank(q) THEN "400"
    ELSE IF Blank(t) THEN "400"
    ELSE IF ~configured THEN "500"
    ELSE IF ~decode_token(token).ok THEN "401"
    ELSE "run"

(* POST /chat *)
ChatRequest(q, t, token) ==
    LET outcome == Checked(q, t, token, chat.configured)
    IN  /\ status # "running"
        /\ chat' = [query |-> q, thread_id |-> t, token |-> token, outcome |-> outcome,
                    configured |-> chat.configured]
        /\ IF outcome = "run"
           THEN RunBegin(Head(strip(q)), Head(strip(t)), decode_token(token).user_id,
                         NoFaults, NoFaults)
           ELSE /\ UNCHANGED <<conversations, reports, runs, status, error, node, messages,
                               steps, supersteps, query, thread_id, user_id,
                               initial_messages, final_msg, returned, planner_calls,
                               dispatched, cache_query, cached_report, pdf_context, pruned,
                               prompt_messages, varied, upserted, cache_match,
                               distiller_calls, faults, parked, active, png_files,
                               existing_files, written, limited_calls>>
                /\ UNCHANGED auth
        /\ UNCHANGED pinecone

(* The service as deployed: with its keys, or with one of them missing *)
InitChat ==
    /\ conversations = [k \in Threads \X Users |-> <<>>]
    /\ reports = [u \in Users |-> [k \in Queries |-> None]]
    /\ runs = 0
    /\ status = "idle"
    /\ node = "END"
    /\ messages = <<>>
    /\ steps = 0
    /\ supersteps = 0
    /\ query = ""
    /\ thread_id = ""
    /\ user_id = ""
    /\ initial_messages = <<>>
    /\ RunLocals
    /\ OneCoroutine
    /\ NoCharts
    /\ NoAccounts
    /\ chat \in {NoChat, [NoChat EXCEPT !.configured = FALSE]}
    /\ NoVectors

NextChat ==
    \/ \E q \in RawQueries, t \in RawThreads, token \in Tokens : ChatRequest(q, t, token)
    \/ Gate
    \/ ReasonPlain
    \/ Act
    \/ RunFinish

SpecChat == InitChat /\ [][NextChat]_vars

-----------------------------------------------------------------------------
(* StrategicMemory.save_to_memory on the index, vector by vector *)

(* report_str[:50000] *)
MaxReport == 50000

(* A report is named by its text and its length in characters *)
Reports == [body : {"a", "b"}, length : {100, 50001}]

(* report_str[:50000]: "Limit metadata size" *)
Truncated(report) ==
    [body |-> report.body,
     length |-> IF report.length > MaxReport THEN MaxReport ELSE report.length]

(* hashlib.md5(text).hexdigest(), taken as free of collisions *)
md5(text) == <<"md5">> \o text

(* A vector id made of the user alone *)
vector_id_of_user(u, q) == u

(* f"{user_id}_{query_hash}" with query_hash = md5(f"{user_id}_{query}") *)
vector_id(u, q) == u \o <<"_">> \o md5(u \o <<"_">> \o q)

(* namespace=f"reports_{user_id}" *)
namespace(u) == <<"reports_">> \o u

(* index.upsert: the vector replaces the one with its id in its namespace *)
upsert(vectors, vector) ==
    {v \in vectors : ~(v.namespace = vector.namespace /\ v.id = vector.id)} \cup {vector}

save_to_memory(q, report, u) ==
    /\ index' = upsert(index, [namespace |-> namespace(u), id |-> vector_id(u, q),
                               report |-> Truncated(report), query |-> q, user_id |-> u])
    /\ last_saved' = [last_saved EXCEPT ![<<u, q>>] = <<report>>]
    /\ UNCHANGED <<conversations, reports, runs, status, error, node, messages, steps,
                   supersteps, query, thread_id, user_id, initial_messages, final_msg,
                   returned, planner_calls, dispatched, cache_query, cached_report,
                   pdf_context, pruned, prompt_messages, varied, upserted, cache_match,
                   distiller_calls, faults, parked, active, png_files, existing_files,
                   written, limited_calls, chat>>
    /\ UNCHANGED auth

NextIndex == \E q \in CacheQueries, r \in Reports, u \in CacheUsers : save_to_memory(q, r, u)

SpecIndex == Init /\ [][NextIndex]_vars

-----------------------------------------------------------------------------
(* Properties *)

PlannerResponses ==
    {i \in 1..Len(messages) : messages[i].type = "ai" /\ i > Len(initial_messages)
                              /\ ~Contains(messages[i].content, FROM_MEMORY)}

(* C1: a run whose cache lookup returned a report goes from the gate to     *)
(* END: the planner is never called and no capability is dispatched,        *)
(* whatever retrieval returned.                                             *)
C1_CacheHitSkipsLoop ==
    (status # "idle" /\ cached_report # None)
        => (node = "END" /\ planner_calls = 0 /\ steps = 0 /\ dispatched = 0)

(* C2: the step counter is the number of call_model executions of the run,  *)
(* is at most 12, and no node but the planner changes it.                   *)
C2_StepCounter ==
    /\ [](steps = planner_calls /\ steps <= 12)
    /\ [][(status = "running" /\ node # "planner") => steps' = steps]_vars

C2_Witness ==
    /\ status = "running"
    /\ node = "executor"
    /\ steps = 9
    /\ dispatched > 8

(* C3: when every response of the policy requests a routed capability, the  *)
(* run does not raise, and it returns after exactly 12 planner executions.  *)
C3_BudgetExhaustionReturns ==
    (/\ planner_calls > 0
     /\ \A i \in PlannerResponses :
          /\ messages[i].tool_calls # <<>>
          /\ \A j \in 1..Len(messages[i].tool_calls) :
               messages[i].tool_calls[j].name \in RoutedTools)
        => (/\ status # "raised"
            /\ status = "returned" => planner_calls = 12)

(* C4: once the step counter is at 12 the graph is at END, also when the    *)
(* last response carries requests; the executor never runs at 12 or more.   *)
C4_HardCapForcesEnd ==
    /\ steps >= 12 => node = "END"
    /\ node = "executor" => steps < 12

C4_Witness ==
    /\ steps = 12
    /\ node = "END"
    /\ Last(messages).type = "ai"
    /\ Last(messages).tool_calls # <<>>

(* C5: a request for an unrouted capability does not abort the run, and its *)
(* observation is an error text that names the capability.                  *)
C5_UnknownCapabilityObserved ==
    /\ error # "UnboundLocalError"
    /\ \A i \in 1..Len(messages) :
         \A j \in 1..Len(messages[i].tool_calls) :
            (/\ messages[i].tool_calls[j].name \notin RoutedTools
             /\ i + j <= Len(messages)
             /\ messages[i + j].type = "tool")
                => Contains(messages[i + j].content, messages[i].tool_calls[j].name)

(* C6: message 0 of the run's context is the query given to run().          *)
C6_FirstMessageIsQuery ==
    status # "idle" => messages[1] = HumanMessage(<<query>>)

(* C7: the text the gate sends to the cache and to retrieval is the query   *)
(* of the run, the text the answer is later upserted under.                 *)
C7_GateUsesRunQuery ==
    /\ (status # "idle" /\ supersteps > 0) => cache_query = <<query>>
    /\ upserted # NoUpsert => cache_query = <<upserted[1]>>

C9_ObservationPerRequest ==
    [][(status = "running" /\ node = "executor" /\ status' = "running")
        => LET calls == Last(messages).tool_calls
               n == Len(messages)
           IN /\ node' = "planner"
              /\ Len(messages') = n + Len(calls)
              /\ SubSeq(messages', 1, n) = messages
              /\ \A i \in 1..Len(calls) :
                   /\ messages'[n + i].type = "tool"
                   /\ messages'[n + i].tool_call_id = calls[i].id]_vars

C9_Witness ==
    /\ status = "running"
    /\ node = "planner"
    /\ Len(messages) >= 3
    /\ Len(messages[Len(messages) - 2].tool_calls) = 2
    /\ messages[Len(messages) - 1].tool_call_id = messages[Len(messages) - 2].tool_calls[1].id
    /\ messages[Len(messages)].tool_call_id = messages[Len(messages) - 2].tool_calls[2].id
    /\ messages[Len(messages) - 1].tool_call_id # messages[Len(messages)].tool_call_id

(* C10: the transitions are exactly: gate to END or planner; planner to the *)
(* executor iff the response carries a request and the counter is below 12, *)
(* else to END; executor to planner; END has no successor.                  *)
C10_TransitionRelation ==
    [][status = "running" =>
        /\ node = "memory_check" => (status' = "running" /\ node' \in {"END", "planner"})
        /\ node = "planner" =>
             /\ status' = "running"
             /\ node' = IF Last(messages').tool_calls # <<>> /\ steps' < 12
                        THEN "executor" ELSE "END"
        /\ node = "executor" => (status' = "running" /\ node' = "planner")
        /\ node = "END" => node' = "END"]_vars


-----------------------------------------------------------------------------
(* The first message the planner appended in this run *)
FirstResponse ==
    messages[Len(initial_messages) + Len(check_cache(cached_report, pdf_context)) + 1]

(* C11: every returned RunResult has a non-empty answer; and a run without  *)
(* a cache hit whose first policy response carries no capability request    *)
(* returns after exactly one REASON (steps = 1) and zero dispatches.        *)
C11_DirectAnswer ==
    status = "returned" =>
        /\ returned.answer # <<>>
        /\ (cached_report = None /\ FirstResponse.tool_calls = <<>>) =>
               /\ steps = 1
               /\ planner_calls = 1
               /\ dispatched = 0

C11_Witness ==
    /\ status = "returned"
    /\ cached_report = None
    /\ FirstResponse.tool_calls = <<>>
    /\ FirstResponse.content = <<>>
    /\ steps = 1
    /\ dispatched = 0
    /\ returned.answer = Fallback

(* C12: when the similarity cache's query raises at the gate, the run takes *)
(* it as no cached answer and goes on to the planner; the failure does not  *)
(* end the run with an exception.                                           *)
C12_CacheFailureDegrades ==
    "cache" \in faults =>
        /\ error # "CacheError"
        /\ cached_report = None
        /\ node # "memory_check"

(* C13: a failing retrieval, at the gate or inside a query_user_pdfs        *)
(* dispatch, becomes "no additional context": the run is not ended by it,   *)
(* the gate emits no document message and leaves the messages it would      *)
(* leave on an empty retrieval, and the dispatch yields the observation of  *)
(* an empty retrieval.                                                      *)
C13_RetrievalFailureDegrades ==
    /\ error \notin {"RetrievalError", "CollaboratorError"}
    /\ "retrieval_gate" \in faults =>
           LET after_gate == initial_messages \o check_cache(cached_report, None)
           IN /\ pdf_context = None
              /\ node # "memory_check"
              /\ SubSeq(messages, 1, Len(after_gate)) = after_gate
              /\ \A i \in 1..Len(messages) : ~Contains(messages[i].content, FROM_DOCUMENTS)
    /\ "retrieval_tool" \in faults =>
           \E i \in 1..Len(messages) :
               /\ messages[i].type = "tool"
               /\ messages[i].content = <<NoInfo>>

C13_Witness ==
    /\ status = "returned"
    /\ "retrieval_gate" \in faults
    /\ "retrieval_tool" \in faults
    /\ \E i \in 1..Len(messages) : messages[i].content = <<NoInfo>>

(* C14: a failure of the reasoning model's call inside the planner does not *)
(* end the run with an exception: it is put in the context as a message     *)
(* and the run goes on to return a RunResult.                               *)
C14_ModelFailureSurfaced ==
    "model" \in faults =>
        /\ error # "ModelError"
        /\ status # "raised"

(* The requests call_tool has answered: <<i, j>> is request j of the        *)
(* assistant message at position i, and its observation follows at i + j.   *)
Answered ==
    UNION {{<<i, j>> : j \in 1..Len(messages[i].tool_calls)} : i \in 1..(Len(messages) - 1)}

NameAt(p) == messages[p[1]].tool_calls[p[2]].name
ObservationAt(p) == messages[p[1] + p[2]]
AnsweredOf(names) == {p \in Answered : NameAt(p) \in names}

(* C15: the distiller is called exactly once for each dispatched            *)
(* scrape_site or read_pdf_document request and for no other request; the   *)
(* observation of web_search and execute_python is the tool's raw result,   *)
(* that of query_user_pdfs the retrieved text (or the no-information text). *)
C15_DistillerOnlyForLargeResults ==
    /\ distiller_calls = Cardinality(AnsweredOf(LargeResultTools))
    /\ \A p \in AnsweredOf(LargeResultTools) :
           ObservationAt(p).content \in {distill_scrape(RawResult(NameAt(p)), o) : o \in MayFail}
    /\ \A p \in AnsweredOf({"web_search", "execute_python"}) :
           ObservationAt(p).content = RawResult(NameAt(p))
    /\ \A p \in AnsweredOf({"query_user_pdfs"}) :
           ObservationAt(p).content \in {<<"pdf chunk">>, <<NoInfo>>}

C15_Witness ==
    /\ status = "returned"
    /\ distiller_calls = 1
    /\ AnsweredOf({"read_pdf_document"}) # {}
    /\ AnsweredOf({"execute_python"}) # {}
    /\ AnsweredOf({"web_search"}) # {}

(* C16: when the distiller's model call fails, the dispatch is not ended by *)
(* an exception: the observation of that request is appended with the       *)
(* non-empty diagnostic text, and the planner is the next node.             *)
C16_DistillerFailureDiagnostic ==
    [][("distiller" \notin faults /\ "distiller" \in faults') =>
        /\ status' = "running"
        /\ node' = "planner"
        /\ Len(messages') > Len(messages)
        /\ \E p \in AnsweredOf(LargeResultTools)' :
               /\ p[1] = Len(messages)
               /\ ObservationAt(p)'.content = <<DistillFailed>>
               /\ ObservationAt(p)'.content # <<>>]_vars

C16_Witness ==
    /\ status = "returned"
    /\ "distiller" \in faults
    /\ \E p \in AnsweredOf(LargeResultTools) : ObservationAt(p).content = <<DistillFailed>>

C18_WarningLeavesState ==
    [][(status = "running" /\ node = "planner") =>
        /\ steps' = steps + 1
        /\ messages' = Append(messages, Last(messages'))
        /\ \A i \in 1..Len(messages') : messages'[i] # SystemMessage(<<URGENT>>)]_vars

(* A message as a full record of the history would store it *)
Stored(m) ==
    [role |-> IF m.type = "human" THEN "user"
              ELSE IF m.type = "ai" THEN "assistant"
              ELSE m.type,
     content |-> m.content]

(* C19: building the pruned view leaves the history as it is, and the list  *)
(* saved to the conversation store at the end of a run holds the run's full *)
(* history: the prior messages, the query, every intermediate assistant     *)
(* request and tool observation, and the final answer.                      *)
C19_FullHistorySaved ==
    /\ planner_calls > 0 =>
           SubSeq(messages, 1, Len(prompt_messages)) = prompt_messages
    /\ (status = "returned" /\ final_msg # <<>>) =>
           LET saved == conversations[<<thread_id, user_id>>]
           IN \A i \in 1..Len(messages) :
                  messages[i].type \in {"human", "ai", "tool"} =>
                      \E j \in 1..Len(saved) : saved[j] = Stored(messages[i])

(* C20: the similarity cache is partitioned per user: the report a lookup   *)
(* returns to a run was stored by a run of the same user, also when another *)
(* user stored a report for the identical query; and a report is returned   *)
(* only from a match scoring at least 0.85.                                 *)
C20_CachePartitioned ==
    /\ cached_report # None =>
           /\ cache_match # <<>>
           /\ cache_match[1].user_id = user_id
           /\ cache_match[1].score >= 85
           /\ cache_match[1].report = cached_report
           /\ \E k \in Queries : reports[user_id][k] = cached_report
    /\ cache_match # <<>> => cache_match[1].user_id = user_id

C20_Witness ==
    /\ user_id = "u2"
    /\ status = "running"
    /\ node = "planner"
    /\ cache_query = <<"q1">>
    /\ reports["u1"]["q1"] # None
    /\ StoredQueries("u2") = {}
    /\ cached_report = None
    /\ cache_match = <<>>

C22_ArtifactsOfThisRun ==
    status = "returned" => returned.generated_files = written

(* Executions of call_tool that completed in this run *)
Acts == Cardinality({i \in 1..(Len(messages) - 1) : messages[i].tool_calls # <<>>})

(* C24: every run terminates: a running run eventually returns or ends with *)
(* an error, whatever the policy answers, and never executes the planner    *)
(* more than 12 times or the executor more than 11 times.                   *)
C24_RunTerminates ==
    /\ [](planner_calls <= 12 /\ Acts <= 11)
    /\ (status = "running") ~> (status \in {"returned", "raised"})

C24_Witness ==
    /\ status = "returned"
    /\ planner_calls = 10
    /\ Acts = 9
    /\ supersteps = 20

(* C25: every call this run issued to the external model, by the planner    *)
(* and by the distiller, went through the shared rate limiter.              *)
C25_ModelCallsRateLimited ==
    limited_calls = planner_calls + distiller_calls

(* C26: an unavailable conversation store never ends a run with an          *)
(* exception: when the load fails the run starts from the query alone, and  *)
(* when the save fails run() still returns the answer it computed.          *)
C26_StoreFailureDegrades ==
    /\ error # "LoadError"
    /\ "load" \in faults =>
           /\ status # "raised" \/ error = "GraphRecursionError"
           /\ initial_messages = <<HumanMessage(<<query>>)>>
    /\ "save" \in faults =>
           /\ status = "returned"
           /\ returned.answer = final_msg
           /\ final_msg # <<>>

C26_Witness ==
    /\ status = "returned"
    /\ "load" \in faults
    /\ "save" \in faults
    /\ conversations[<<thread_id, user_id>>] # <<>>
    /\ Len(conversations[<<thread_id, user_id>>]) = 2
    /\ returned.answer = <<"answer">>

(* C27: when the construction of the ResearchGraph fails, the chat request  *)
(* ends with an error before any transition: no run starts, no node         *)
(* executes, no history is loaded and no store is written.                  *)
C27_ConstructionFailureFirst ==
    [][("construct" \in faults') =>
        /\ status' = "failed"
        /\ error' = "InitError"
        /\ runs' = runs
        /\ node' = "END"
        /\ messages' = <<>>
        /\ initial_messages' = <<>>
        /\ supersteps' = 0
        /\ planner_calls' = 0
        /\ dispatched' = 0
        /\ returned' = NoResult
        /\ UNCHANGED <<conversations, reports, png_files>>]_vars

C27_Witness ==
    /\ status = "failed"
    /\ "construct" \in faults
    /\ runs = 1
    /\ \E t \in Threads : conversations[<<t, "u1">>] # <<>>
    /\ messages = <<>>

(* The documents of the users collection that carry the given username *)
Records(name) == {i \in 1..Len(users) : users[i].username = name}

(* C28: usernames are unique: whatever signups ran, interleaved or not, at
   most one user record exists per stripped username, and a signup that was
   rejected with 'already exists' created no record *)
C28_UsernamesUnique ==
    /\ \A i, j \in 1..Len(users) : users[i].username = users[j].username => i = j
    /\ \A r \in Requests :
           signups[r].pc = "rejected" /\ signups[r].result = AlreadyExists =>
               Cardinality(Records(strip(signups[r].username))) = 1

(* C28: two signups for one username, each past its find_one before the
   other's insert_one, have both inserted a record *)
C28_Witness ==
    /\ signups[1].pc = "done" /\ signups[2].pc = "done"
    /\ strip(signups[1].username) = strip(signups[2].username)
    /\ Cardinality(Records(strip(signups[1].username))) = 2

(* A signup that has returned a user id *)
SignedUp(r) == signups[r].pc = "done"

(* C29: after a successful signup with username u and password p, a login
   with (u, p) yields the user id the signup returned, and a login with u
   and any other password yields none *)
C29_SignupThenLogin ==
    [][\A r \in Requests :
          SignedUp(r) /\ login' # login /\ login'.username = signups[r].username =>
              IF login'.password = signups[r].password
              THEN login'.result = signups[r].result
              ELSE login'.result = None]_vars

(* C29: a signup returned a user id and a later login with the same
   username and password did not yield that id, or a login with another
   password yielded one *)
C29_Witness ==
    \E r \in login.after :
        /\ login.username = signups[r].username
        /\ \/ login.password = signups[r].password /\ login.result # signups[r].result
           \/ login.password # signups[r].password /\ login.result # None

(* The cache hit of the run: the gate's last message is the cached answer *)
CacheHit == is_it_known(initial_messages \o check_cache(cached_report, pdf_context)) = "known"

(* The messages of this run that are no answer: the gate's system message,
   the tool observations, the responses that carry capability requests *)
NotAnswers ==
    {messages[i].content : i \in {j \in Len(initial_messages) + 1..Len(messages) :
        \/ messages[j].type \in {"system", "tool"}
        \/ messages[j].tool_calls # <<>>}}

(* C30: the answer run returns is the cached answer with its sentinel, the
   content of a policy response that carries no capability request, or the
   fallback text; it is never the content of the gate's system message, of a
   tool observation or of a response with capability requests; and the text
   upserted into the cache and appended to the stored conversation is that
   same cached or policy text *)
C30_AnswerProvenance ==
    status = "returned" =>
        LET terminal == Last(messages)
            answer == IF CacheHit THEN <<FROM_MEMORY>> \o cached_report
                      ELSE terminal.content
        IN  /\ terminal.type = "ai" /\ terminal.tool_calls = <<>>
            /\ ~CacheHit => planner_calls > 0
            /\ answer = terminal.content
            /\ returned.answer = IF answer # <<>> THEN answer ELSE Fallback
            /\ returned.answer \notin NotAnswers
            /\ upserted # NoUpsert => ~CacheHit /\ upserted = <<query, answer>>
            /\ answer # <<>> =>
                   Last(conversations[<<thread_id, user_id>>]) =
                       [role |-> "assistant", content |-> answer]

(* C30: a run whose gate added the retrieval context and whose policy
   requested a capability with text of its own, then gave an empty answer,
   has returned the fallback *)
C30_Witness ==
    /\ status = "returned"
    /\ pdf_context # None
    /\ dispatched > 0
    /\ <<"let me search">> \in NotAnswers
    /\ Last(messages).content = <<>>
    /\ returned.answer = Fallback

(* The messages a step appended to the history *)
Appended == SubSeq(messages', Len(messages) + 1, Len(messages'))

(* C31: the gate only reads: it appends the sentinel-marked assistant
   message exactly when the cache's top match is at or above the threshold,
   and the document-context system message exactly when retrieval returned
   context, each whatever the other lookup gave; it appends nothing else,
   writes to no store and leaves the step counter alone *)
C31_GateReadOnly ==
    [][(status = "running" /\ node = "memory_check") =>
          LET hit == cache_match' # <<>> /\ cache_match'[1].score >= Threshold
              found == pdf_context' # None
              cached == {i \in 1..Len(Appended) :
                            /\ Appended[i].type = "ai"
                            /\ Appended[i].content = <<FROM_MEMORY>> \o cache_match'[1].report}
              context == {i \in 1..Len(Appended) :
                            /\ Appended[i].type = "system"
                            /\ Appended[i].content = <<FROM_DOCUMENTS>> \o pdf_context'}
          IN  /\ SubSeq(messages', 1, Len(messages)) = messages
              /\ hit <=> cached # {}
              /\ found <=> context # {}
              /\ Len(Appended) = Cardinality(cached) + Cardinality(context)
              /\ UNCHANGED <<reports, conversations, steps, upserted, png_files>>]_vars

(* C31: a gate whose cache lookup and retrieval both answered has appended
   both messages and the stores are as the run found them *)
C31_Witness ==
    /\ status = "running"
    /\ node = "planner"
    /\ supersteps = 1
    /\ cached_report # None
    /\ pdf_context # None
    /\ Len(messages) = Len(initial_messages) + 2
    /\ steps = 0

(* C32: when run returns, the cache is upserted exactly when the final text
   is non-empty and carries no cache-hit sentinel, and then under the run's
   query; a run that went from the gate to the end writes nothing to the
   cache, and a run that returns the fallback writes neither to the cache
   nor to the conversation store *)
C32_UpsertOnlyFreshAnswers ==
    [][(status = "running" /\ node = "END" /\ status' = "returned") =>
          LET sentinel == \E i \in 1..Len(final_msg) : final_msg[i] = FROM_MEMORY
              wanted == final_msg # <<>> /\ ~sentinel
          IN  /\ wanted <=> upserted' # NoUpsert
              /\ wanted => reports' = [reports EXCEPT ![user_id][query] = final_msg]
              /\ ~wanted => reports' = reports
              /\ planner_calls = 0 => sentinel /\ reports' = reports
              /\ returned'.answer = Fallback =>
                     reports' = reports /\ conversations' = conversations]_vars

(* C32: a run that ended at the gate on a cache hit has returned and the
   cache holds what it held, the conversation store has the new exchange *)
C32_Witness ==
    /\ status = "returned"
    /\ planner_calls = 0
    /\ cached_report # None
    /\ upserted = NoUpsert
    /\ returned.answer = <<FROM_MEMORY>> \o cached_report
    /\ reports[user_id][query] = cached_report

(* The observation at position i of a view has its request before it *)
Paired(view, i) ==
    \E j \in 1..(i - 1) :
        /\ view[j].type = "ai"
        /\ \E k \in 1..Len(view[j].tool_calls) : view[j].tool_calls[k].id = view[i].tool_call_id

(* C33: every pruned view given to the reasoning policy holds the query of
   the current run, and every tool observation in it comes after the
   assistant message that issued the request with the same identifier *)
C33_ViewKeepsPairsAndQuery ==
    planner_calls > 0 =>
        /\ \E i \in 1..Len(pruned) : pruned[i] = HumanMessage(<<query>>)
        /\ \A i \in 1..Len(pruned) : pruned[i].type = "tool" => Paired(pruned, i)

(* C33: a pruned view that opens, after message 0, with the observation of
   a request whose assistant message was cut off *)
C33_Witness ==
    /\ planner_calls > 0
    /\ Len(pruned) = 5
    /\ pruned[1] = HumanMessage(<<query>>)
    /\ pruned[2].type = "tool"
    /\ ~Paired(pruned, 2)

(* The current query is cut off from the pruned view of a run on a thread
   with stored history *)
QueryDropped ==
    /\ planner_calls > 0
    /\ \A i \in 1..Len(pruned) : pruned[i] # HumanMessage(<<query>>)

(* C34: with two runs executing concurrently in one working directory, the
   artifact set a run returns holds only files its own capability
   executions wrote: never a chart the other run wrote meanwhile *)
C34_OnlyOwnArtifacts ==
    status = "returned" => returned.generated_files \subseteq written

(* C34: a run that wrote no chart has returned one that the other run
   wrote between this run's two directory listings *)
C34_Witness ==
    /\ status = "returned"
    /\ written = {}
    /\ returned.generated_files # {}
    /\ returned.generated_files \subseteq parked.written
    /\ parked.status \in {"running", "returned"}

(* The stored conversation holds the exchange of a run: its query followed
   by its final answer *)
Exchanged(doc, run) ==
    \E i \in 1..(Len(doc) - 1) :
        /\ doc[i] = [role |-> "user", content |-> <<run.query>>]
        /\ doc[i + 1] = [role |-> "assistant", content |-> run.final_msg]

(* C35: when two runs on one thread and user have both returned an answer,
   overlapping or not, the stored conversation holds the query and the
   final answer of both: the save of one does not wipe out the exchange of
   the other *)
C35_NoLostExchange ==
    (/\ status = "returned" /\ parked.status = "returned"
     /\ final_msg # <<>> /\ parked.final_msg # <<>>
     /\ thread_id = parked.thread_id /\ user_id = parked.user_id) =>
        /\ Exchanged(conversations[<<thread_id, user_id>>], Locals)
        /\ Exchanged(conversations[<<thread_id, user_id>>], parked)

(* C35: two runs with different queries loaded the same conversation before
   either saved; both have returned an answer and the stored conversation
   holds the exchange of one run only *)
C35_Witness ==
    /\ status = "returned" /\ parked.status = "returned"
    /\ final_msg # <<>> /\ parked.final_msg # <<>>
    /\ thread_id = parked.thread_id /\ user_id = parked.user_id
    /\ query # parked.query
    /\ SubSeq(initial_messages, 1, Len(initial_messages) - 1)
           = SubSeq(parked.initial_messages, 1, Len(parked.initial_messages) - 1)
    /\ \A i \in 1..Len(conversations[<<thread_id, user_id>>]) :
           conversations[<<thread_id, user_id>>][i].content # <<parked.query>>

(* C36: a failing upsert into the similarity cache at run end does not turn
   the completed run into an error: run() still saves the conversation and
   returns the RunResult with the answer it had *)
C36_UpsertFailureDegrades ==
    "upsert" \in faults =>
        /\ status = "returned"
        /\ returned.answer = final_msg
        /\ Last(conversations[<<thread_id, user_id>>]) =
               [role |-> "assistant", content |-> final_msg]

(* C36: the policy gave a final answer, the upsert raised, and the run has
   ended by that exception with nothing returned and nothing saved *)
C36_Witness ==
    /\ "upsert" \in faults
    /\ status = "raised"
    /\ error = "UpsertError"
    /\ final_msg = <<"answer">>
    /\ returned = NoResult
    /\ conversations[<<thread_id, user_id>>] = <<>>

(* C37: the catalog offered to the reasoning policy and the dispatcher's
   routing table name the same capabilities: whatever the policy requests
   has a route, and every route, query_user_pdfs too, is in the catalog *)
C37_CatalogIsRoutingTable ==
    /\ \A i \in 1..Len(messages) : \A k \in 1..Len(messages[i].tool_calls) :
           messages[i].tool_calls[k].name \in RoutedTools
    /\ \A name \in RoutedTools : name \in tools

(* C37: a run whose policy requested capabilities of the catalog has
   returned, and the routing table holds a name the catalog does not *)
C37_Witness ==
    /\ status = "returned"
    /\ dispatched > 1
    /\ \E i \in 1..Len(messages) :
           messages[i].tool_calls # <<>> /\ messages[i].tool_calls[1].name \in tools
    /\ RoutedTools \ tools = {"query_user_pdfs"}
    /\ tools \ RoutedTools = {}

(* The token decodes to a user: its signature verifies and it has not expired *)
Authorized(token) == token.signature = "ok" /\ ~token.expired

(* A chat request that started no run left the engine as it was *)
NothingStarted ==
    UNCHANGED <<conversations, reports, runs, status, node, messages, steps, supersteps,
                planner_calls, dispatched, limited_calls, png_files, users>>

(* No chat request starts a run unless its query and thread id are not
   blank and its token decodes to an unexpired user, whose id is the user
   scope of the run; a request that starts no run changes nothing *)
NoRunUnlessAuthorized ==
    [][chat' # chat =>
          IF chat'.outcome = "run"
          THEN /\ ~Blank(chat'.query) /\ ~Blank(chat'.thread_id)
               /\ Authorized(chat'.token)
               /\ runs' = runs + 1
               /\ user_id' = chat'.token.user_id
               /\ <<query'>> = strip(chat'.query)
               /\ <<thread_id'>> = strip(chat'.thread_id)
          ELSE NothingStarted]_vars

(* C38: the chat operation starts no run (constructs nothing, calls no
   cache, store or model) unless query and thread id are not blank and the
   token decodes to a valid, unexpired user; a blank query or thread id
   yields a 400 error, an invalid or expired token a 401 error, and the
   user scope of the run is the user id the token carries *)
C38_ChatGuards ==
    [][chat' # chat =>
          /\ IF chat'.outcome = "run"
             THEN /\ ~Blank(chat'.query) /\ ~Blank(chat'.thread_id)
                  /\ Authorized(chat'.token)
                  /\ user_id' = chat'.token.user_id
             ELSE NothingStarted
          /\ (Blank(chat'.query) \/ Blank(chat'.thread_id)) => chat'.outcome = "400"
          /\ (~Blank(chat'.query) /\ ~Blank(chat'.thread_id) /\ ~Authorized(chat'.token))
                 => chat'.outcome = "401"]_vars

(* C38: a request with a query, a thread id and an expired token was
   answered with the 500 of a missing key, not with 401 *)
C38_Witness ==
    /\ ~Blank(chat.query)
    /\ ~Blank(chat.thread_id)
    /\ chat.token.signature = "ok" /\ chat.token.expired
    /\ ~chat.configured
    /\ chat.outcome = "500"
    /\ runs = 0

(* A configured service has refused a request with an expired token by 401 *)
Refused ==
    /\ chat.configured
    /\ chat.outcome = "401"
    /\ chat.token.expired
    /\ runs = 1
    /\ status = "returned"

(* The cache entries of a user and a query *)
Entries(u, q) == {v \in index : v.user_id = u /\ v.query = q}

(* C39, as stated: saving to the similarity cache is idempotent per user
   and query: after any number of upserts for one user and one query text
   there is exactly one entry for the pair, and it holds the answer saved
   last *)
C39_UpsertIdempotent ==
    \A u \in CacheUsers, q \in CacheQueries :
        IF last_saved[<<u, q>>] = <<>> THEN Entries(u, q) = {}
        ELSE /\ Cardinality(Entries(u, q)) = 1
             /\ \A v \in Entries(u, q) : v.report = last_saved[<<u, q>>][1]

(* C39, amended: after any number of upserts there is exactly one entry per
   saved pair, in the namespace of its user, holding the first 50000
   characters of the answer saved last; and a save never changes the
   entries of other users or other queries *)
C39_UpsertIdempotentTruncated ==
    [][/\ \A u \in CacheUsers, q \in CacheQueries :
             IF last_saved'[<<u, q>>] = <<>> THEN Entries(u, q)' = {}
             ELSE /\ Cardinality(Entries(u, q)') = 1
                  /\ \A v \in Entries(u, q)' :
                         /\ v.report = Truncated(last_saved'[<<u, q>>][1])
                         /\ v.namespace = namespace(u)
       /\ \A u \in CacheUsers, q \in CacheQueries :
             last_saved'[<<u, q>>] = last_saved[<<u, q>>] => Entries(u, q)' = Entries(u, q)]_vars

(* C39: every pair has been saved, the pair whose f"{user_id}_{query}" text
   is that of another pair too, and one of them with an answer of more than
   50000 characters; there are four entries *)
C39_Witness ==
    /\ \A k \in CacheUsers \X CacheQueries : last_saved[k] # <<>>
    /\ Cardinality(index) = 4
    /\ last_saved[<<(<<"u">>), (<<"1", "_", "q">>)>>][1].length > MaxReport
    /\ \E v \in Entries(<<"u">>, <<"1", "_", "q">>) : v.report.length = MaxReport

====
